---- MODULE Spec2Model ----
(***************************************************************************)
(* The rule no-array-fill-with-reference-type: the CallExpression handler, *)
(* the classifier isReferenceType / isIdentifierReferenceType and the      *)
(* label helper getType, run over one scope of a linted program.           *)
(***************************************************************************)
EXTENDS Integers, Sequences, FiniteSets, TLC

\* Number of nested isReferenceType invocations the engine's call stack holds
\* before it raises RangeError (engine dependent; every acyclic chain over
\* Names fits in it).
StackLimit == 4

\* The names a scope of the linted program may declare.
Names == {"a", "b"}

\* callee.name of a callee that has none (member path, class expression).
NoName == "<undefined>"

\* ------------------------------------------------------------------------
\* Syntax tree nodes
\* ------------------------------------------------------------------------

Null == [type |-> "null"]

ArrayText == <<"A", "r", "r", "a", "y">>
ArrayFromText == <<"A", "r", "r", "a", "y", ".", "f", "r", "o", "m">>
FooText == <<"F", "o", "o">>
ClassExpressionText == <<"c", "l", "a", "s", "s", " ", "{", "}">>

\* A callee: its name when it is a plain identifier, and its source text.
SymbolCallee == [name |-> "Symbol", text |-> <<"S", "y", "m", "b", "o", "l">>]
RegExpCallee == [name |-> "RegExp", text |-> <<"R", "e", "g", "E", "x", "p">>]
FooCallee == [name |-> "Foo", text |-> FooText]
ArrayCallee == [name |-> "Array", text |-> ArrayText]
ArrayFromCallee == [name |-> NoName, text |-> ArrayFromText]
ClassExpressionCallee == [name |-> NoName, text |-> ClassExpressionText]

Literals == {[type |-> "Literal", regex |-> r] : r \in BOOLEAN}

Identifiers == {[type |-> "Identifier", name |-> n] : n \in Names}

CallExpressions == {[type |-> "CallExpression", callee |-> c] : c \in {SymbolCallee, FooCallee}}

NewExpressions == {[type |-> "NewExpression", callee |-> c] : c \in {RegExpCallee, FooCallee, ClassExpressionCallee}}

PlainShapes == {[type |-> t] : t \in {"TemplateLiteral", "FunctionExpression", "ArrowFunctionExpression", "ObjectExpression", "ArrayExpression", "ClassExpression"}}

\* The expressions that occur as a fill argument or as an initializer.
Expressions == Literals \cup Identifiers \cup CallExpressions \cup NewExpressions \cup PlainShapes

\* definitionNode of a `let` / `const` / `var` declaration; kind is
\* definitionNode.parent.kind, init is null for a bare declaration.
VariableDeclarators == {[type |-> "VariableDeclarator", kind |-> k, init |-> i] : k \in {"let", "const", "var"}, i \in Expressions \cup {Null}}

\* The definitions the scope analysis records for a variable: def.type and
\* def.node (the function itself for a parameter).
Definitions == {[type |-> "Variable", node |-> d] : d \in VariableDeclarators}
        \cup {[type |-> "FunctionName", node |-> [type |-> "FunctionDeclaration"]],
              [type |-> "Parameter", node |-> [type |-> "FunctionDeclaration"]],
              [type |-> "ClassName", node |-> [type |-> "ClassDeclaration"]],
              [type |-> "ImportBinding", node |-> [type |-> "ImportDefaultSpecifier"]],
              [type |-> "Variable", node |-> Null]}

\* variable.defs: empty for a variable the configuration declares, else the
\* one definition.
DefLists == {<<>>} \cup {<<d>> : d \in Definitions}

\* What a scope holds for one name: nothing, or the variable with its defs.
ScopeEntries(n) == {<<>>} \cup {<<[name |-> n, defs |-> d]>> : d \in DefLists}

\* getScope(node).variables, for every scope over Names.
Scopes == {ea \o eb : ea \in ScopeEntries("a"), eb \in ScopeEntries("b")}

\* ------------------------------------------------------------------------
\* Configuration
\* ------------------------------------------------------------------------

DEFAULTS == [canFillWithFunction |-> TRUE, canFillWithRegexp |-> TRUE]

\* context.options[0]: any subset of the two toggles (the schema admits no
\* other key and only booleans).
SuppliedOptions == UNION {[S -> BOOLEAN] : S \in SUBSET (DOMAIN DEFAULTS)}

\* The spread written the other way round: {...context.options[0], ...DEFAULTS}
MergeOptionsDefaultsLast(supplied) == [k \in DOMAIN DEFAULTS |-> DEFAULTS[k]]

\* {...DEFAULTS, ...context.options[0]}
MergeOptions(supplied) == [k \in DOMAIN DEFAULTS |-> IF k \in DOMAIN supplied THEN supplied[k] ELSE DEFAULTS[k]]

\* ------------------------------------------------------------------------
\* Helpers imported from ./ast/index.js
\* ------------------------------------------------------------------------

isFunction(node) == node.type \in {"FunctionDeclaration", "FunctionExpression", "ArrowFunctionExpression"}

isRegexLiteral(node) == node.type = "Literal" /\ node.regex

\* ------------------------------------------------------------------------
\* The classifier.  One invocation either returns a flag, or throws, or
\* returns whatever a nested invocation on another node returns.
\* ------------------------------------------------------------------------

Return(b) == [kind |-> "return", value |-> b, node |-> Null]
Recurse(n) == [kind |-> "call", value |-> FALSE, node |-> n]
Throw == [kind |-> "throw", value |-> FALSE, node |-> Null]

\* variables.find(v => v.name === name): index of the first match, 0 if none.
FindVariable(scope, name) ==
    LET hits == {i \in 1..Len(scope) : scope[i].name = name}
    IN IF hits = {} THEN 0 ELSE CHOOSE i \in hits : \A j \in hits : i <= j

\* The declarator itself classified instead of its initializer.
isIdentifierReferenceTypeOfDeclarator(node, scope) ==
    LET idx == FindVariable(scope, node.name)
    IN IF idx = 0 THEN Return(FALSE)
       ELSE IF scope[idx].defs = <<>> THEN Throw
       ELSE LET definitionNode == scope[idx].defs[1].node
            IN IF definitionNode = Null THEN Return(FALSE)
               ELSE IF definitionNode.type = "VariableDeclarator" /\ definitionNode.kind = "let" THEN Return(FALSE)
               ELSE Recurse(definitionNode)

isIdentifierReferenceType(node, scope) ==
    LET idx == FindVariable(scope, node.name)
    IN IF idx = 0 THEN Return(FALSE)
       ELSE IF scope[idx].defs = <<>> THEN Throw
       ELSE LET definitionNode == scope[idx].defs[1].node
            IN IF definitionNode = Null THEN Return(FALSE)
               ELSE IF definitionNode.type = "VariableDeclarator"
                    THEN IF definitionNode.kind = "let" THEN Return(FALSE)
                         ELSE Recurse(definitionNode.init)
               ELSE Recurse(definitionNode)

\* Every `new` construction taken for a RegExp construction.
isReferenceTypeAnyNewIsRegexp(node, supplied, scope) ==
    LET options == MergeOptions(supplied)
        isNewRegexp == node.type = "NewExpression"
    IN IF node = Null THEN Return(FALSE)
       ELSE IF node.type = "Literal"
            THEN IF ~options.canFillWithRegexp /\ isRegexLiteral(node) THEN Return(TRUE) ELSE Return(FALSE)
       ELSE IF node.type = "TemplateLiteral" THEN Return(FALSE)
       ELSE IF node.type = "Identifier" THEN isIdentifierReferenceType(node, scope)
       ELSE IF node.type = "CallExpression" /\ node.callee.name = "Symbol" /\ Len(scope) = 0 THEN Return(FALSE)
       ELSE IF options.canFillWithFunction /\ isFunction(node) THEN Return(FALSE)
       ELSE IF options.canFillWithRegexp /\ isNewRegexp THEN Return(FALSE)
       ELSE Return(TRUE)

\* Every call in a scope without variables taken for a call of Symbol.
isReferenceTypeAnyCallIsSymbol(node, supplied, scope) ==
    LET options == MergeOptions(supplied)
        isNewRegexp == node.type = "NewExpression" /\ node.callee.name = "RegExp"
    IN IF node = Null THEN Return(FALSE)
       ELSE IF node.type = "Literal"
            THEN IF ~options.canFillWithRegexp /\ isRegexLiteral(node) THEN Return(TRUE) ELSE Return(FALSE)
       ELSE IF node.type = "TemplateLiteral" THEN Return(FALSE)
       ELSE IF node.type = "Identifier" THEN isIdentifierReferenceType(node, scope)
       ELSE IF node.type = "CallExpression" /\ Len(scope) = 0 THEN Return(FALSE)
       ELSE IF options.canFillWithFunction /\ isFunction(node) THEN Return(FALSE)
       ELSE IF options.canFillWithRegexp /\ isNewRegexp THEN Return(FALSE)
       ELSE Return(TRUE)

isReferenceType(node, supplied, scope) ==
    LET options == MergeOptions(supplied)
        isNewRegexp == node.type = "NewExpression" /\ node.callee.name = "RegExp"
    IN IF node = Null THEN Return(FALSE)
       ELSE IF node.type = "Literal"
            THEN IF ~options.canFillWithRegexp /\ isRegexLiteral(node) THEN Return(TRUE) ELSE Return(FALSE)
       ELSE IF node.type = "TemplateLiteral" THEN Return(FALSE)
       ELSE IF node.type = "Identifier" THEN isIdentifierReferenceType(node, scope)
       ELSE IF node.type = "CallExpression" /\ node.callee.name = "Symbol" /\ Len(scope) = 0 THEN Return(FALSE)
       ELSE IF options.canFillWithFunction /\ isFunction(node) THEN Return(FALSE)
       ELSE IF options.canFillWithRegexp /\ isNewRegexp THEN Return(FALSE)
       ELSE Return(TRUE)

\* What isReferenceType(node, context) comes to with `fuel` stack frames
\* left: "true", "false", or the error it throws.
RECURSIVE Evaluate(_, _, _, _)
Evaluate(node, supplied, scope, fuel) ==
    IF fuel = 0 THEN "RangeError"
    ELSE LET r == isReferenceType(node, supplied, scope)
         IN IF r.kind = "throw" THEN "TypeError"
            ELSE IF r.kind = "return" THEN (IF r.value THEN "true" ELSE "false")
            ELSE Evaluate(r.node, supplied, scope, fuel - 1)

\* ------------------------------------------------------------------------
\* Labels
\* ------------------------------------------------------------------------

\* The longest label taken from a callee's source text.
MaxTypeLength == 32

RECURSIVE Join(_)
Join(chars) == IF chars = <<>> THEN "" ELSE Head(chars) \o Join(Tail(chars))

IsSpace(c) == c \in {" ", "\n", "\t"}

\* text.split('\n')[0]
RECURSIVE FirstLine(_)
FirstLine(chars) ==
    IF chars = <<>> \/ Head(chars) = "\n" THEN <<>>
    ELSE <<Head(chars)>> \o FirstLine(Tail(chars))

RECURSIVE TakeToken(_)
TakeToken(chars) ==
    IF chars = <<>> \/ IsSpace(Head(chars)) THEN <<>>
    ELSE <<Head(chars)>> \o TakeToken(Tail(chars))

\* line.match(/\S+/): the first run of non-space characters, <<>> if none.
RECURSIVE FirstToken(_)
FirstToken(chars) ==
    IF chars = <<>> THEN <<>>
    ELSE IF IsSpace(Head(chars)) THEN FirstToken(Tail(chars))
    ELSE TakeToken(chars)

Slice(chars, n) == SubSeq(chars, 1, IF Len(chars) < n THEN Len(chars) ELSE n)

getNewExpressionType(fillArgument) ==
    IF fillArgument.callee.name # NoName THEN "new " \o fillArgument.callee.name \o "()"
    ELSE LET matches == FirstToken(FirstLine(fillArgument.callee.text))
         IN IF matches # <<>> THEN "new " \o Join(Slice(matches, MaxTypeLength))
            ELSE "new ()"

\* The identifier case left out of the default branch.
getTypeWithoutIdentifier(fillArgument) ==
    IF fillArgument.type = "ObjectExpression" THEN "Object"
    ELSE IF fillArgument.type = "ArrayExpression" THEN "Array"
    ELSE IF fillArgument.type = "NewExpression" THEN getNewExpressionType(fillArgument)
    ELSE IF fillArgument.type \in {"FunctionExpression", "ArrowFunctionExpression"} THEN "Function"
    ELSE IF fillArgument.type = "Literal" /\ fillArgument.regex THEN "RegExp"
    ELSE ""

getType(fillArgument) ==
    IF fillArgument.type = "ObjectExpression" THEN "Object"
    ELSE IF fillArgument.type = "ArrayExpression" THEN "Array"
    ELSE IF fillArgument.type = "NewExpression" THEN getNewExpressionType(fillArgument)
    ELSE IF fillArgument.type \in {"FunctionExpression", "ArrowFunctionExpression"} THEN "Function"
    ELSE IF fillArgument.type = "Literal" /\ fillArgument.regex THEN "RegExp"
    ELSE IF fillArgument.type = "Identifier" THEN "variable (" \o fillArgument.name \o ")"
    ELSE ""

\* ------------------------------------------------------------------------
\* The visited calls
\* ------------------------------------------------------------------------

\* x(...).fill(...) and its variations: node.callee is a member access whose
\* object is a call of objectCallee, or a plain identifier.
CallShapes == {[calleeType |-> "MemberExpression", objectCallee |-> c, property |-> p] :
                    c \in {ArrayCallee, ArrayFromCallee, FooCallee}, p \in {"fill", "push"}}
        \cup {[calleeType |-> "Identifier", objectCallee |-> FooCallee, property |-> NoName]}

\* The calls the traversal may reach: every argument under the two array
\* callees, and `{}` or nothing under the other shapes.
VisitedCalls == {[callee |-> c, arguments |-> a] : c \in CallShapes, a \in {<<>>, <<[type |-> "ObjectExpression"]>>}}
        \cup {[callee |-> [calleeType |-> "MemberExpression", objectCallee |-> c, property |-> "fill"], arguments |-> <<e>>] :
                    c \in {ArrayCallee, ArrayFromCallee}, e \in Expressions}

isArrayFill(call) ==
    /\ call.callee.calleeType = "MemberExpression"
    /\ (call.callee.objectCallee.name = "Array" \/ call.callee.objectCallee.text = ArrayFromText)
    /\ call.callee.property = "fill"
    /\ Len(call.arguments) > 0

NoReport == [messageId |-> "none", actual |-> "", type |-> ""]

Report(call) ==
    LET fillArgument == call.arguments[1]
        type == getType(fillArgument)
    IN [messageId |-> "no-array-fill-with-reference-type/error",
        actual |-> IF call.callee.objectCallee.text = ArrayFromText THEN "Array.from().fill()" ELSE "Array.fill()",
        type |-> IF type # "" THEN " (" \o type \o ")" ELSE ""]

NoCall == [callee |-> [calleeType |-> "none", objectCallee |-> FooCallee, property |-> NoName], arguments |-> <<>>]

\* ------------------------------------------------------------------------
\* State
\* ------------------------------------------------------------------------

VARIABLES variables, supplied, pc, call, node, depth, result

vars == <<variables, supplied, pc, call, node, depth, result>>

Init ==
    /\ variables \in Scopes
    /\ supplied \in SuppliedOptions
    /\ pc = "idle"
    /\ call = NoCall
    /\ node = Null
    /\ depth = 0
    /\ result = NoReport

\* The traversal reaches a call that is not a fill of an array: no report.
CallExpressionSkip ==
    /\ pc = "idle"
    /\ \E c \in VisitedCalls :
        /\ ~isArrayFill(c)
        /\ call' = c
    /\ pc' = "done"
    /\ result' = NoReport
    /\ UNCHANGED <<variables, supplied, node, depth>>

\* The traversal reaches a fill of an array: classify its first argument.
CallExpressionFill ==
    /\ pc = "idle"
    /\ \E c \in VisitedCalls :
        /\ isArrayFill(c)
        /\ call' = c
        /\ node' = c.arguments[1]
    /\ pc' = "isReferenceType"
    /\ depth' = 0
    /\ UNCHANGED <<variables, supplied, result>>

\* The innermost invocation returns a flag, every enclosing invocation
\* returns it unchanged, and the handler reports or not.
ClassifyReturn ==
    /\ pc = "isReferenceType"
    /\ depth < StackLimit
    /\ LET r == isReferenceType(node, supplied, variables)
       IN /\ r.kind = "return"
          /\ result' = IF r.value THEN Report(call) ELSE NoReport
    /\ pc' = "done"
    /\ UNCHANGED <<variables, supplied, call, node, depth>>

\* The invocation calls isReferenceType on the node its binding leads to.
ClassifyRecurse ==
    /\ pc = "isReferenceType"
    /\ depth < StackLimit
    /\ LET r == isReferenceType(node, supplied, variables)
       IN /\ r.kind = "call"
          /\ node' = r.node
    /\ depth' = depth + 1
    /\ UNCHANGED <<variables, supplied, pc, call, result>>

\* variable.defs[0].node on a variable without definitions.
ClassifyTypeError ==
    /\ pc = "isReferenceType"
    /\ depth < StackLimit
    /\ isReferenceType(node, supplied, variables).kind = "throw"
    /\ pc' = "TypeError"
    /\ UNCHANGED <<variables, supplied, call, node, depth, result>>

\* The call stack is exhausted.
ClassifyRangeError ==
    /\ pc = "isReferenceType"
    /\ depth = StackLimit
    /\ pc' = "RangeError"
    /\ UNCHANGED <<variables, supplied, call, node, depth, result>>

\* The traversal moves on to the next call of the file.
Traverse ==
    /\ pc = "done"
    /\ pc' = "idle"
    /\ call' = NoCall
    /\ node' = Null
    /\ depth' = 0
    /\ result' = NoReport
    /\ UNCHANGED <<variables, supplied>>

Next ==
    \/ CallExpressionSkip
    \/ CallExpressionFill
    \/ ClassifyReturn
    \/ ClassifyRecurse
    \/ ClassifyTypeError
    \/ ClassifyRangeError
    \/ Traverse

Spec == Init /\ [][Next]_vars

\* ------------------------------------------------------------------------
\* Properties
\* ------------------------------------------------------------------------

\* The handler went through isReferenceType and returned.
Classified == pc = "done" /\ isArrayFill(call)

FillArgument == call.arguments[1]

\* The flag isReferenceType returned to the handler.
Flagged == result # NoReport

\* The fill argument is an identifier whose variable the scope holds with a
\* definition node.
ArgumentBound ==
    /\ isArrayFill(call)
    /\ FillArgument.type = "Identifier"
    /\ FindVariable(variables, FillArgument.name) # 0
    /\ variables[FindVariable(variables, FillArgument.name)].defs # <<>>
    /\ variables[FindVariable(variables, FillArgument.name)].defs[1].node # Null

ArgumentDefinition == variables[FindVariable(variables, FillArgument.name)].defs[1]

ArgumentDeclaredWith(kinds) ==
    /\ ArgumentBound
    /\ ArgumentDefinition.node.type = "VariableDeclarator"
    /\ ArgumentDefinition.node.kind \in kinds

\* A toggle as the configuration gives it: its value, TRUE when omitted.
Toggle(k) == IF k \in DOMAIN supplied THEN supplied[k] ELSE TRUE

IsRegexShape(n) ==
    \/ n.type = "Literal" /\ n.regex
    \/ n.type = "NewExpression" /\ n.callee.name = "RegExp"

IsFunctionLiteral(n) == n.type \in {"FunctionExpression", "ArrowFunctionExpression"}

AllOptions == [DOMAIN DEFAULTS -> BOOLEAN]

\* The verdict on the fill argument does not depend on the configuration.
SameUnderAllOptions ==
    \A o1, o2 \in AllOptions :
        Evaluate(FillArgument, o1, variables, StackLimit) = Evaluate(FillArgument, o2, variables, StackLimit)

\* C1: an identifier bound by a reassignable declaration (`let` or `var`) is
\* never flagged, whatever its initializer and the configuration.
C1_ReassignableIsValueType ==
    (Classified /\ ArgumentDeclaredWith({"let", "var"})) => ~Flagged

\* C2: an identifier bound by `const` with an initializer gets the flag that
\* classifying the initializer itself gives.
C2_FixedBindingFollowsInitializer ==
    (Classified /\ ArgumentDeclaredWith({"const"}) /\ ArgumentDefinition.node.init # Null)
        => Evaluate(ArgumentDefinition.node.init, supplied, variables, StackLimit) = (IF Flagged THEN "true" ELSE "false")

\* C2 witness: `const a = b; const b = <reference>; fill(a)` is flagged.
C2_Witness ==
    /\ Classified
    /\ ArgumentDeclaredWith({"const"})
    /\ ArgumentDefinition.node.init.type = "Identifier"
    /\ ArgumentDefinition.node.init # FillArgument
    /\ depth = 2
    /\ Flagged

\* C3: a regex literal or `new RegExp` is flagged exactly when
\* canFillWithRegexp is false, a function or arrow literal exactly when
\* canFillWithFunction is false; an omitted toggle counts as true.
C3_TogglesGovern ==
    Classified =>
        /\ IsRegexShape(FillArgument) => (Flagged <=> ~Toggle("canFillWithRegexp"))
        /\ IsFunctionLiteral(FillArgument) => (Flagged <=> ~Toggle("canFillWithFunction"))

\* C3 witness: an arrow function under {canFillWithFunction: false}, the
\* other toggle omitted, is flagged.
C3_Witness ==
    /\ Classified
    /\ FillArgument.type = "ArrowFunctionExpression"
    /\ supplied = [k \in {"canFillWithFunction"} |-> FALSE]
    /\ Flagged

\* C4 as claimed: a fill argument that is neither a regex shape nor a
\* function literal gets the same verdict under all four configurations.
C4_OnlyGovernedShapesVary ==
    (Classified /\ ~IsRegexShape(FillArgument) /\ ~IsFunctionLiteral(FillArgument)) => SameUnderAllOptions

\* C4 amended: a fill argument whose classification ends on a node that is
\* neither a regex shape nor a function gets the same verdict under all four
\* configurations.
C4_OnlyGovernedEndsVary ==
    (Classified /\ ~IsRegexShape(node) /\ ~isFunction(node))
        => /\ SameUnderAllOptions
           /\ Evaluate(FillArgument, supplied, variables, StackLimit) = (IF Flagged THEN "true" ELSE "false")

\* C4 witness: an identifier resolved to an object literal is flagged.
C4_Witness ==
    /\ Classified
    /\ FillArgument.type = "Identifier"
    /\ node.type = "ObjectExpression"
    /\ Flagged

\* C5: a call of `Symbol` is never flagged, whether or not the scope holds
\* variables.
C5_SymbolCallIsValueType ==
    (Classified /\ FillArgument.type = "CallExpression" /\ FillArgument.callee.name = "Symbol") => ~Flagged

\* C6: the classifier never throws on a binding it cannot use, and gives
\* value-type for it.
C6_NeverThrows ==
    /\ pc # "TypeError"
    /\ (Classified /\ FillArgument.type = "Identifier" /\ ~ArgumentBound) => ~Flagged

\* C7: object and array literals, `new` of anything but RegExp, class
\* literals and calls of anything but Symbol are flagged under every
\* configuration.
C7_ReferenceShapes ==
    (/\ Classified
     /\ \/ FillArgument.type \in {"ObjectExpression", "ArrayExpression", "ClassExpression"}
        \/ FillArgument.type = "NewExpression" /\ FillArgument.callee.name # "RegExp"
        \/ FillArgument.type = "CallExpression" /\ FillArgument.callee.name # "Symbol")
        => Flagged

\* C7 witness: `new class {}` is flagged.
C7_Witness ==
    /\ Classified
    /\ FillArgument = [type |-> "NewExpression", callee |-> ClassExpressionCallee]
    /\ Flagged
    /\ result.type = " (new class)"

\* The label slot of the message for a node with label getType(n).
LabelSlot(n) == IF getType(n) # "" THEN " (" \o getType(n) \o ")" ELSE ""

C9_Terminates == pc # "RangeError"

\* C10: an identifier whose binding carries no initializer (a bare
\* declaration, a parameter, an import) is never flagged.
C10_NoInitializerIsValueType ==
    (/\ Classified
     /\ ArgumentBound
     /\ \/ ArgumentDefinition.node.type = "VariableDeclarator" /\ ArgumentDefinition.node.init = Null
        \/ ArgumentDefinition.type \in {"Parameter", "ImportBinding"})
        => ~Flagged

====
